---- MODULE Spec2Model ----
(***************************************************************************)
(* A model of package bleu (src/bleu.go): the two entry points Compute and *)
(* Smooth, and the functions they call.                                    *)
(*                                                                         *)
(* Numbers.  The code computes in float64; the model keeps every value     *)
(* exact:                                                                  *)
(*   - a precision is the pair <<num, den>> of the division of line 171    *)
(*     (<<0, 1>> is the literal 0.0 of lines 140 and 146);                 *)
(*   - a weight w of the code is the integer 2*w (0.5 is 1, 1.0 is 2,      *)
(*     -0.5 is -1);                                                        *)
(*   - the log-sum s of lines 56-65 is the pair <<a, b>> with              *)
(*     s = ln(a/b) / 2, so that s + w*ln(p) is <<a * p.num^(2w),           *)
(*     b * p.den^(2w)>>;                                                   *)
(*   - a float that is returned is [kind |-> "zero"], [kind |-> "nan"] or  *)
(*     [kind |-> "pos", e |-> <<en, ed>>, g |-> <<gn, gd>>], standing for  *)
(*     exp(en/ed) * sqrt(gn/gd), with ed, gn, gd > 0.                      *)
(***************************************************************************)
EXTENDS Integers, Sequences, FiniteSets, TLC

VARIABLES
    candidate,    \* the caller's candidate slice (folded in place by a call)
    references,   \* the caller's reference slices (folded in place by a call)
    given,        \* the arguments as they were passed: [candidate, references]
    weights,      \* the weights of the call, <<>> before it
    op,           \* "none" before the call, then "Compute" or "Smooth"
    ps,           \* computeBleu's ps: one precision per requested order
    overlap,      \* computeBleu's overlap counter
    clipped,      \* per order, the clippedCounts map modifiedPrecision built
    bp,           \* the evaluation of brevityPenalty, if one took place
    score         \* what the call returned, or how it ended

vars == <<candidate, references, given, weights, op, ps, overlap, clipped, bp, score>>

----------------------------------------------------------------------------
(* Bounds of the model *)

\* total number of tokens in the candidate and the references together
MaxTokens == 4
\* number of references
MaxRefs == 2
\* len(weights), the number of n-gram orders requested
MaxOrder == 2

----------------------------------------------------------------------------
(* Tokens and case folding *)

Tokens == {"a", "b", "A"}

\* a slip: the tokens are compared as they come
ToLowerSkipped(t) == t

\* strings.ToLower on the tokens of the model: every token but these two is
\* lower case already.
ToLower(t) ==
    CASE t = "A" -> "a"
      [] t = "Champinones" -> "champinones"
      [] OTHER -> t

\* lines 39-41 and 44-48: fold every token of a sentence
LowerSentence(s) == [i \in 1..Len(s) |-> ToLower(s[i])]

LowerAll(refs) == [i \in 1..Len(refs) |-> LowerSentence(refs[i])]

----------------------------------------------------------------------------
(* n-grams and their counts *)

RECURSIVE JoinQuoted(_)
JoinQuoted(p) ==
    IF Len(p) = 0 THEN ""
    ELSE IF Len(p) = 1 THEN "\"" \o p[1] \o "\""
    ELSE "\"" \o p[1] \o "\"," \o JoinQuoted(Tail(p))

\* phrase.String: the JSON encoding of the n-gram, the key of every count map
String(p) == "[" \o JoinQuoted(p) \o "]"

getNgrams(s, n) ==
    IF Len(s) - n + 1 <= 0 THEN <<>>
    ELSE [i \in 1..(Len(s) - n + 1) |-> SubSeq(s, i, i + n - 1)]

countNgrams(ngrams) ==
    [k \in {String(ngrams[i]) : i \in 1..Len(ngrams)} |->
        Cardinality({i \in 1..Len(ngrams) : String(ngrams[i]) = k})]

\* a read of a Go map: the zero value for a missing key
Get(m, k) == IF k \in DOMAIN m THEN m[k] ELSE 0

RECURSIVE SumOver(_, _)
SumOver(m, keys) ==
    IF keys = {} THEN 0
    ELSE LET k == CHOOSE x \in keys : TRUE
         IN  m[k] + SumOver(m, keys \ {k})

sum(m) == SumOver(m, DOMAIN m)

min(a, b) == IF a < b THEN a ELSE b

abs(a) == IF a < 0 THEN -a ELSE a

----------------------------------------------------------------------------
(* modifiedPrecision *)

\* a slip: the counts of the references are added up
MaxCountsStepSum(maxCounts, counts, referenceCounts) ==
    [ngram \in DOMAIN counts |->
        Get(maxCounts, ngram) + Get(referenceCounts, ngram)]

\* the body of the loop of lines 150-159 for one reference: every candidate
\* n-gram not yet in maxCounts gets the reference's count, one already there
\* is raised to it
MaxCountsStep(maxCounts, counts, referenceCounts) ==
    [ngram \in DOMAIN counts |->
        IF ngram \notin DOMAIN maxCounts THEN Get(referenceCounts, ngram)
        ELSE IF maxCounts[ngram] < Get(referenceCounts, ngram)
             THEN Get(referenceCounts, ngram)
             ELSE maxCounts[ngram]]

RECURSIVE MaxCountsLoop(_, _, _, _, _)
MaxCountsLoop(i, maxCounts, counts, refs, n) ==
    IF i > Len(refs) THEN maxCounts
    ELSE MaxCountsLoop(i + 1,
                       MaxCountsStep(maxCounts, counts,
                                     countNgrams(getNgrams(refs[i], n))),
                       counts, refs, n)

EmptyMap == [k \in {} |-> 0]

maxCountsOf(counts, refs, n) == MaxCountsLoop(1, EmptyMap, counts, refs, n)

\* a slip: the reference's count is taken unclipped
clippedCountsOfNoClip(counts, maxCounts) ==
    [ngram \in DOMAIN counts |-> Get(maxCounts, ngram)]

\* lines 161-164
clippedCountsOf(counts, maxCounts) ==
    [ngram \in DOMAIN counts |-> min(counts[ngram], Get(maxCounts, ngram))]

\* a slip: the factor is added whether smoothing was asked for or not
smoothingFactorAlways(smoothing) == 1

\* a slip: the factor is never added
smoothingFactorNever(smoothing) == 0

\* lines 167-170
smoothingFactor(smoothing) == IF smoothing THEN 1 ELSE 0

\* a slip: the early returns of lines 139-147 are missing
modifiedPrecisionNoGuard(cand, refs, n, smoothing) ==
    LET counts == countNgrams(getNgrams(cand, n))
        cl == clippedCountsOf(counts, maxCountsOf(counts, refs, n))
    IN  [p |-> <<sum(cl) + smoothingFactor(smoothing),
                 sum(counts) + smoothingFactor(smoothing)>>,
         clippedCounts |-> cl]

\* [p |-> the precision returned, clippedCounts |-> the map of lines 161-164]
modifiedPrecision(cand, refs, n, smoothing) ==
    LET ngrams == getNgrams(cand, n)
        counts == countNgrams(ngrams)
    IN  IF Len(ngrams) = 0 \/ DOMAIN counts = {}
        THEN [p |-> <<0, 1>>, clippedCounts |-> EmptyMap]
        ELSE LET cl == clippedCountsOf(counts, maxCountsOf(counts, refs, n))
             IN  [p |-> <<sum(cl) + smoothingFactor(smoothing),
                          sum(counts) + smoothingFactor(smoothing)>>,
                  clippedCounts |-> cl]

----------------------------------------------------------------------------
(* brevityPenalty *)

\* a slip: <= for <, so that the last of the closest references is taken
RECURSIVE ClosestLoopLast(_, _, _, _)
ClosestLoopLast(i, acc, refLens, c) ==
    IF i > Len(refLens) THEN acc
    ELSE IF acc[2] = -1 \/ abs(refLens[i] - c) <= acc[2]
         THEN ClosestLoopLast(i + 1, <<i, abs(refLens[i] - c)>>, refLens, c)
         ELSE ClosestLoopLast(i + 1, acc, refLens, c)

\* lines 185-191: <<minDiffInd, minDiff>> after the references from i on
RECURSIVE ClosestLoop(_, _, _, _)
ClosestLoop(i, acc, refLens, c) ==
    IF i > Len(refLens) THEN acc
    ELSE IF acc[2] = -1 \/ abs(refLens[i] - c) < acc[2]
         THEN ClosestLoop(i + 1, <<i, abs(refLens[i] - c)>>, refLens, c)
         ELSE ClosestLoop(i + 1, acc, refLens, c)

\* the (1-based) index of the reference brevityPenalty selects
minDiffIndOf(refLens, c) == ClosestLoop(1, <<1, -1>>, refLens, c)[1]

One == [kind |-> "pos", e |-> <<0, 1>>, g |-> <<1, 1>>]

Zero == [kind |-> "zero"]

NaN == [kind |-> "nan"]

\* a slip: the comparison of line 193 the other way round
PenaltySwapped(c, r) ==
    IF c < r THEN [kind |-> "pos", e |-> <<0, 1>>, g |-> <<1, 1>>]
    ELSE IF c = 0 THEN [kind |-> "nan"]
    ELSE [kind |-> "pos", e |-> <<c - r, c>>, g |-> <<1, 1>>]

\* lines 193-196; with c = 0 the float division gives +Inf (exp(-Inf) = 0) for
\* r > 0 and NaN for r = 0
Penalty(c, r) ==
    IF c > r THEN One
    ELSE IF c = 0 THEN (IF r > 0 THEN Zero ELSE NaN)
    ELSE [kind |-> "pos", e |-> <<c - r, c>>, g |-> <<1, 1>>]

NotCalled == [called |-> FALSE]

\* the evaluation of brevityPenalty: refLens[minDiffInd] of line 192 is out of
\* range, a run-time panic, when there is no reference
brevityPenalty(cand, refs) ==
    LET c == Len(cand)
        refLens == [i \in 1..Len(refs) |-> Len(refs[i])]
        ind == minDiffIndOf(refLens, c)
    IN  IF Len(refLens) = 0
        THEN [called |-> TRUE, c |-> c, panic |-> TRUE]
        ELSE [called |-> TRUE, c |-> c, panic |-> FALSE, minDiffInd |-> ind,
              r |-> refLens[ind], value |-> Penalty(c, refLens[ind])]

----------------------------------------------------------------------------
(* computeBleu *)

RECURSIVE Pow(_, _)
Pow(b, k) == IF k = 0 THEN 1 ELSE b * Pow(b, k - 1)

\* s + w * math.Log(pn), line 63
AddLog(s, w, pn) ==
    IF w >= 0 THEN <<s[1] * Pow(pn[1], w), s[2] * Pow(pn[2], w)>>
    ELSE <<s[1] * Pow(pn[2], -w), s[2] * Pow(pn[1], -w)>>

\* lines 56-65: <<s, overlap>> after the orders from i on
RECURSIVE LogSumLoop(_, _, _, _)
LogSumLoop(i, acc, ws, pss) ==
    IF i > Len(ws) THEN acc
    ELSE IF pss[i][1] > 0
         THEN LogSumLoop(i + 1, <<AddLog(acc[1], ws[i], pss[i]), acc[2] + 1>>, ws, pss)
         ELSE LogSumLoop(i + 1, acc, ws, pss)

\* bp * math.Exp(s), line 74
Times(b, s) ==
    IF b.kind = "pos" THEN [kind |-> "pos", e |-> b.e, g |-> s] ELSE b

\* lines 51-54: modifiedPrecision for the orders 1..n, in order
RECURSIVE PrecisionLoop(_, _, _, _)
PrecisionLoop(n, cand, refs, smoothing) ==
    IF n = 0 THEN <<>>
    ELSE Append(PrecisionLoop(n - 1, cand, refs, smoothing),
                modifiedPrecision(cand, refs, n, smoothing))

\* lines 56-74, given the folded inputs and what modifiedPrecision gave for
\* the orders 1..len(weights): the values the call leaves behind
Combine(cand, refs, mp, ws) ==
    LET pss == [i \in 1..Len(ws) |-> mp[i].p]
        acc == LogSumLoop(1, <<(<<1, 1>>), 0>>, ws, pss)
        b == brevityPenalty(cand, refs)
    IN  [ps |-> pss, overlap |-> acc[2],
         clipped |-> [i \in 1..Len(ws) |-> mp[i].clippedCounts],
         bp |-> IF acc[2] = 0 THEN NotCalled ELSE b,
         score |-> IF acc[2] = 0 THEN Zero
                   ELSE IF b.panic THEN [kind |-> "panic"]
                   ELSE Times(b.value, acc[1])]

----------------------------------------------------------------------------
(* The inputs *)

RECURSIVE SentencesOfLen(_)
SentencesOfLen(n) ==
    IF n = 0 THEN {<<>>}
    ELSE {Append(s, t) : s \in SentencesOfLen(n - 1), t \in Tokens}

SentencesUpTo(n) == UNION {SentencesOfLen(k) : k \in 0..n}

RECURSIVE TotalLen(_)
TotalLen(refs) == IF refs = <<>> THEN 0 ELSE Len(Head(refs)) + TotalLen(Tail(refs))

\* the collections of exactly k references with at most budget tokens in all
RECURSIVE RefsOf(_, _)
RefsOf(k, budget) ==
    IF k = 0 THEN {<<>>}
    ELSE UNION {{Append(rs, s) : s \in SentencesUpTo(budget - TotalLen(rs))} :
                    rs \in RefsOf(k - 1, budget)}

RefsUpTo(budget) == UNION {RefsOf(k, budget) : k \in 0..MaxRefs}

Repeat(t, n) == [i \in 1..n |-> t]

Numbered(n) ==
    SubSeq(<<"1", "2", "3", "4", "5", "6", "7", "8", "9", "10", "11", "12", "13">>, 1, n)

references1 ==
    << <<"the", "cat", "is", "on", "the", "mat">>,
       <<"there", "is", "a", "cat", "on", "the", "mat">> >>

\* inputs of bleu_test.go, and two more for the order of the references
TestInputs ==
    { [candidate |-> Repeat("the", 7), references |-> references1],
      [candidate |-> <<"garlic", "mushrooms">>,
       references |-> << <<"garlic", "mushrooms">> >>],
      [candidate |-> <<"Champinones", "sizzled">>,
       references |-> << <<"garlic", "mushrooms">> >>],
      [candidate |-> <<"artichokes", "with", "the", "butter">>,
       references |-> << <<"hearts", "of", "artichoke", "in", "butter", "sauce">> >>],
      [candidate |-> Numbered(12), references |-> <<Numbered(13), Numbered(2)>>],
      [candidate |-> Repeat("a", 3), references |-> <<Repeat("a", 4), Repeat("a", 2)>>],
      [candidate |-> Repeat("a", 3), references |-> <<Repeat("a", 2), Repeat("a", 4)>>] }

SmallInputs ==
    UNION {{[candidate |-> c, references |-> rs] :
                rs \in RefsUpTo(MaxTokens - Len(c))} : c \in SentencesUpTo(MaxTokens)}

WeightValues == {-1, 0, 1}

WeightVectors ==
    UNION {[1..k -> WeightValues] : k \in 0..MaxOrder} \cup {<<1, 1, 1, 1>>}

----------------------------------------------------------------------------
(* The state machine *)

Init ==
    /\ given \in SmallInputs \cup TestInputs
    /\ candidate = given.candidate
    /\ references = given.references
    /\ weights = <<>>
    /\ op = "none"
    /\ ps = <<>>
    /\ overlap = 0
    /\ clipped = <<>>
    /\ bp = NotCalled
    /\ score = [kind |-> "none"]

\* the length of the longest weights vector of the model
MaxWeights ==
    CHOOSE n \in {Len(w) : w \in WeightVectors} : \A w \in WeightVectors : Len(w) <= n

\* computeBleu.  The precision of an order depends on the folded inputs, the
\* order and the smoothing flag only, so the action evaluates the orders once
\* for all the weights vectors it tries and each call reads those of its own
\* orders 1..len(weights).
computeBleu(smoothing) ==
    \E lc \in {LowerSentence(candidate)}, lr \in {LowerAll(references)} :
    \E mp \in {PrecisionLoop(MaxWeights, lc, lr, smoothing)} :
    \E ws \in WeightVectors :
    \E out \in {Combine(lc, lr, SubSeq(mp, 1, Len(ws)), ws)} :
        /\ candidate' = lc
        /\ references' = lr
        /\ weights' = ws
        /\ ps' = out.ps
        /\ overlap' = out.overlap
        /\ clipped' = out.clipped
        /\ bp' = out.bp
        /\ score' = out.score

Compute ==
    /\ op = "none"
    /\ op' = "Compute"
    /\ computeBleu(FALSE)
    /\ UNCHANGED given

Smooth ==
    /\ op = "none"
    /\ op' = "Smooth"
    /\ computeBleu(TRUE)
    /\ UNCHANGED given

Next == Compute \/ Smooth

Spec == Init /\ [][Next]_vars

----------------------------------------------------------------------------
(* What the claims speak of, said without the code's own helpers *)

Done == op # "none"

\* the n-grams of a sentence, as tuples of tokens
Grams(s, n) == {SubSeq(s, i, i + n - 1) : i \in 1..(Len(s) - n + 1)}

\* how often the n-gram g occurs in the sentence s
Occ(s, g) == Cardinality({i \in 1..(Len(s) - Len(g) + 1) : SubSeq(s, i, i + Len(g) - 1) = g})

\* the largest count of g in any one reference, and the counts added up
MaxOf(S) == CHOOSE m \in S : \A x \in S : x <= m

MaxRefOcc(refs, g) == MaxOf({Occ(refs[i], g) : i \in 1..Len(refs)})

RECURSIVE SumRefOcc(_, _)
SumRefOcc(refs, g) ==
    IF refs = <<>> THEN 0 ELSE Occ(Head(refs), g) + SumRefOcc(Tail(refs), g)

\* no candidate n-gram of an order 1..top occurs in a reference
NoMatch(cand, refs, top) ==
    \A n \in 1..top : \A g \in Grams(cand, n) :
        \A i \in 1..Len(refs) : Occ(refs[i], g) = 0

IsOne(v) == v.kind = "pos" /\ v.e[1] = 0 /\ v.g[1] = v.g[2]

\* two tokens that differ in case at most
EqualFold(t, u) == t = u \/ {t, u} = {"a", "A"}

EqualFoldSentence(s, t) ==
    Len(s) = Len(t) /\ \A i \in 1..Len(s) : EqualFold(s[i], t[i])

----------------------------------------------------------------------------
(* C1 *)

\* C1: Compute returns exactly 0 whenever no candidate n-gram of an order
\* 1..len(weights) occurs in a reference: every precision is 0, the overlap
\* count is 0 and brevityPenalty is not evaluated; for every candidate, every
\* non-empty reference collection and every weights vector.
C1_TotalMismatchIsZero ==
    (op = "Compute" /\ references # <<>>
        /\ NoMatch(candidate, references, Len(weights)))
    => /\ score = Zero
       /\ overlap = 0
       /\ \A i \in 1..Len(ps) : ps[i][1] = 0
       /\ ~bp.called

C1_Witness ==
    /\ op = "Compute" /\ references # <<>>
    /\ Len(candidate) >= 2 /\ Len(weights) >= 2
    /\ \E i \in 1..Len(references) : Len(references[i]) >= 2
    /\ NoMatch(candidate, references, Len(weights))
    /\ score = Zero

----------------------------------------------------------------------------
(* C2 *)

\* C2: in modifiedPrecision, for every order n and every candidate n-gram g,
\* the clipped count of g is min(count of g in the candidate, max over the
\* references of the count of g in that one reference), never the sum over
\* the references; seven "the" against the two references of the tests give
\* the clipped count 2 and the precision 2/7.
C2_ClippedIsMinOfMax ==
    (Done /\ references # <<>>)
    => /\ \A n \in 1..Len(weights) : \A g \in Grams(candidate, n) :
          \E k \in {String(g)}, most \in {MaxRefOcc(references, g)} :
            /\ k \in DOMAIN clipped[n]
            /\ clipped[n][k] = min(Occ(candidate, g), most)
            /\ clipped[n][k] <= most
       /\ (given.candidate = Repeat("the", 7) /\ Len(weights) >= 1)
            => /\ clipped[1][String(<<"the">>)] = 2
               /\ op = "Compute" => ps[1] = <<2, 7>>

C2_Witness ==
    /\ op = "Compute" /\ Len(references) >= 2 /\ Len(weights) >= 1
    /\ \E g \in Grams(candidate, 1) :
          /\ MaxRefOcc(references, g) > 0
          /\ SumRefOcc(references, g) > MaxRefOcc(references, g)
          /\ Occ(candidate, g) >= SumRefOcc(references, g)
          /\ clipped[1][String(g)] = MaxRefOcc(references, g)

----------------------------------------------------------------------------
(* C3 *)

\* C3: when the non-empty candidate is, case folded, token for token the only
\* reference, Compute returns 1 for every weights vector of length >= 1, also
\* one longer than the candidate: an order above len(candidate) has precision
\* 0 and stays out of the log-sum, the other orders have precision 1, and the
\* exponent 1 - r/c of the brevity penalty is 0.
C3_ExactMatchIsOne ==
    (op = "Compute" /\ Len(given.references) = 1 /\ given.candidate # <<>>
        /\ EqualFoldSentence(given.candidate, given.references[1])
        /\ Len(weights) >= 1)
    => /\ IsOne(score)
       /\ \A n \in 1..Len(weights) :
            IF n > Len(candidate) THEN ps[n][1] = 0
            ELSE ps[n][1] = ps[n][2]
       /\ overlap = min(Len(weights), Len(candidate))
       /\ bp.called /\ bp.c = bp.r /\ bp.value.e[1] = 0

C3_Witness ==
    /\ op = "Compute" /\ Len(given.references) = 1
    /\ given.candidate # <<>>
    /\ given.candidate # given.references[1]
    /\ EqualFoldSentence(given.candidate, given.references[1])
    /\ Len(weights) > Len(candidate)
    /\ \E i \in 1..Len(weights) : weights[i] < 0
    /\ IsOne(score)

----------------------------------------------------------------------------
(* C4 *)

\* 1000 * e^(n/d) for n/d >= 0, by the series, from the term of index k on
RECURSIVE ExpSeries(_, _, _, _)
ExpSeries(term, k, n, d) ==
    IF term = 0 THEN 0
    ELSE term + ExpSeries((term * n) \div (d * k), k + 1, n, d)

\* 10^6 * v^2 for a returned value v = exp(e) * sqrt(g) with e <= 0
SquareMicro(v) ==
    ((1000000000 \div ExpSeries(1000, 1, -2 * v.e[1], v.e[2])) * v.g[1]) \div v.g[2]

\* |v - x| <= 0.01, with lo = 10^6 * (x - 0.01)^2 and hi = 10^6 * (x + 0.01)^2
Near(v, lo, hi) ==
    v.kind = "pos" /\ v.e[1] <= 0 /\ lo <= SquareMicro(v) /\ SquareMicro(v) <= hi

Artichokes ==
    [candidate |-> <<"artichokes", "with", "the", "butter">>,
     references |-> << <<"hearts", "of", "artichoke", "in", "butter", "sauce">> >>]

\* the product of the precisions that entered the log-sum is a/b
LogSumProduct(a, b) ==
    score.kind = "pos" /\ weights = <<1, 1>> /\ score.g[1] * b = a * score.g[2]

\* C4 as stated: Smooth on [artichokes with the butter], the one reference
\* [hearts of artichoke in butter sauce] and the weights [0.5, 0.5] returns
\* 0.3033 within 0.01: exp(1 - 6/4) times a geometric mean 1/2, the product
\* of the precisions in the log-sum being 1/4.
C4_SmoothReturns3033 ==
    (op = "Smooth" /\ given = Artichokes /\ weights = <<1, 1>>)
    => /\ Near(score, 86025, 98157)
       /\ LogSumProduct(1, 4)

\* C4, amended: on these inputs Smooth returns 0.1918 within 0.01:
\* exp(1 - 6/4) times the geometric mean sqrt(1/10) of the smoothed precisions
\* (1+1)/(4+1) and (0+1)/(3+1), both of which enter the log-sum; 0.3033 is
\* what Compute returns, whose order 2 has precision 0 and stays out of the
\* log-sum, leaving the product 1/4.
C4_SmoothReturns1918 ==
    (given = Artichokes /\ weights = <<1, 1>>)
    => /\ bp.called /\ bp.c = 4 /\ bp.r = 6
       /\ score.e[1] * 4 = (4 - 6) * score.e[2]
       /\ op = "Smooth" =>
            /\ ps = <<(<<2, 5>>), <<1, 4>>>>
            /\ overlap = 2
            /\ LogSumProduct(1, 10)
            /\ Near(score, 33052, 40723)
       /\ op = "Compute" =>
            /\ ps[1] = <<1, 4>> /\ ps[2][1] = 0
            /\ overlap = 1
            /\ LogSumProduct(1, 4)
            /\ Near(score, 86025, 98157)

C4_Witness ==
    /\ op = "Smooth" /\ given = Artichokes /\ weights = <<1, 1>>
    /\ score.kind = "pos" /\ score.g = <<2, 20>>

----------------------------------------------------------------------------
(* C5 *)

\* C5: the zero-overlap shortcut overrides smoothing: if no candidate n-gram
\* of an order 1..len(weights) occurs in a reference, Smooth has the overlap
\* count 0 and returns 0 at once, without evaluating the brevity penalty.
\* (Stated here for the calls that have a reference to score against.)
C5_SmoothMismatchIsZero ==
    (op = "Smooth" /\ references # <<>>
        /\ NoMatch(candidate, references, Len(weights)))
    => /\ overlap = 0
       /\ score = Zero
       /\ ~bp.called

----------------------------------------------------------------------------
(* C6 *)

\* C6: for an empty candidate Compute and Smooth return 0, for every
\* reference collection and every weights vector: every order has precision
\* 0, with smoothing too, and the overlap count is 0; and no call evaluates
\* brevityPenalty with c = 0.
C6_EmptyCandidateIsZero ==
    /\ (Done /\ given.candidate = <<>>)
        => /\ score = Zero
           /\ overlap = 0
           /\ \A i \in 1..Len(ps) : ps[i] = <<0, 1>>
           /\ ~bp.called
    /\ bp.called => bp.c > 0

C6_Witness ==
    /\ op = "Smooth" /\ given.candidate = <<>>
    /\ references # <<>> /\ Len(weights) >= 1
    /\ score = Zero /\ ~bp.called

----------------------------------------------------------------------------
(* C7 *)

\* C7: with an empty reference collection Compute and Smooth fail with
\* InvalidInput, for every candidate and every weights vector; they neither
\* return a score nor end abnormally.
C7_NoReferencesIsInvalidInput ==
    (Done /\ given.references = <<>>) => score.kind = "InvalidInput"

----------------------------------------------------------------------------
(* C8 *)

\* v1 < v2 and v < 1, for the values exp(e) that Penalty returns
Less(v1, v2) ==
    /\ v1.kind = "pos" /\ v2.kind = "pos"
    /\ v1.g[1] = v1.g[2] /\ v2.g[1] = v2.g[2]
    /\ v1.e[1] * v2.e[2] < v2.e[1] * v1.e[2]

LessThanOne(v) == Less(v, [kind |-> "pos", e |-> <<0, 1>>, g |-> <<1, 1>>])

\* how far beyond the selected r the penalties are compared
Beyond == 3

----------------------------------------------------------------------------
(* C9 *)

\* C9: for a non-empty reference collection, every candidate and non-negative
\* weights, the score of Compute and of Smooth is in [0, 1]: each precision
\* has its numerator (the clipped counts, plus 1 with smoothing) at most its
\* denominator (len(candidate) - n + 1, plus 1 with smoothing), so the log-sum
\* is at most 0, and the exponent of the brevity penalty is at most 0.
C9_ScoreInUnitInterval ==
    (Done /\ given.references # <<>> /\ \A i \in 1..Len(weights) : weights[i] >= 0)
    => /\ \/ score = Zero
          \/ /\ score.kind = "pos"
             /\ score.e[2] > 0 /\ score.e[1] <= 0
             /\ 0 < score.g[1] /\ score.g[1] <= score.g[2]
       /\ \A n \in 1..Len(ps) :
            /\ 0 <= ps[n][1] /\ ps[n][1] <= ps[n][2]
            /\ n <= Len(candidate) =>
                 ps[n][2] = Len(candidate) - n + 1 + (IF op = "Smooth" THEN 1 ELSE 0)

C9_Witness ==
    /\ op = "Smooth" /\ references # <<>>
    /\ \A i \in 1..Len(weights) : weights[i] >= 0
    /\ score.kind = "pos"
    /\ score.e[1] < 0 /\ score.g[1] < score.g[2]

----------------------------------------------------------------------------
(* C10 *)

Lengths(lens) ==
    given.references # <<>>
    /\ [i \in 1..Len(given.references) |-> Len(given.references[i])] = lens

\* C10: brevityPenalty takes for r the length of the reference whose length
\* is closest to len(candidate), and of several at the same distance the
\* first in input order: candidate length 3 with reference lengths [4, 2]
\* selects 4, with [2, 4] selects 2, and 12 with [13, 2] selects 13.
C10_ClosestReferenceFirst ==
    (bp.called /\ ~bp.panic)
    => /\ bp.minDiffInd \in 1..Len(references)
       /\ bp.r = Len(references[bp.minDiffInd])
       /\ bp.c = Len(candidate)
       /\ \A j \in 1..Len(references) :
            /\ abs(Len(references[j]) - bp.c) >= abs(bp.r - bp.c)
            /\ j < bp.minDiffInd =>
                 abs(Len(references[j]) - bp.c) > abs(bp.r - bp.c)
       /\ (bp.c = 3 /\ Lengths(<<4, 2>>)) => bp.r = 4
       /\ (bp.c = 3 /\ Lengths(<<2, 4>>)) => bp.r = 2
       /\ (bp.c = 12 /\ Lengths(<<13, 2>>)) => bp.r = 13

C10_Witness ==
    /\ bp.called /\ ~bp.panic /\ Len(references) = 2
    /\ Len(references[1]) # Len(references[2])
    /\ abs(Len(references[1]) - bp.c) = abs(Len(references[2]) - bp.c)
    /\ bp.minDiffInd = 1

====
